---- MODULE Spec2Model ----
(***************************************************************************)
(* A model of the serving-side classes of src/scaling_examples.py:         *)
(* CachingLayer (read-through prediction cache with FIFO eviction),        *)
(* BatchProcessor (size/timeout batching queue), AutoScaler (threshold     *)
(* scale decision) and LoadBalancer (instance selection).                  *)
(*                                                                         *)
(* Each class is a component with its own specifications (SpecHash,        *)
(* SpecCache, SpecBatch, SpecScale, SpecBalance, ...); the variables of    *)
(* the other components stay at their initial values.  SpecConstruct       *)
(* constructs one instance of one class with any arguments and then runs   *)
(* it; SpecPredictThreads and SpecScaleThreads interleave the statements   *)
(* of two calls on one instance.                                           *)
(***************************************************************************)
EXTENDS Integers, Sequences, FiniteSets, TLC

VARIABLES
    \* ---- CachingLayer (scaling_examples.py:121-177)
    cache,            \* self.cache: the dict, as the sequence of its entries in insertion order
    cache_size,       \* self.cache_size
    hits,             \* self.hits
    misses,           \* self.misses
    c_ret,            \* what the last CachingLayer call returned (or raised)
    calls,            \* history: one record per predict call, in call order
    failures,         \* history: number of predict calls whose backend raised
    backend_calls,    \* history: number of predict calls that called the backend
    \* ---- _hash_features applied to two mappings (scaling_examples.py:131-135)
    feat_a, feat_b,   \* two feature mappings, each in its insertion order
    key_a, key_b,     \* their fingerprints, once computed
    \* ---- BatchProcessor (scaling_examples.py:180-221)
    batch_queue,      \* self.batch_queue
    batch_size,       \* self.batch_size
    max_wait_time,    \* self.max_wait_time
    last_batch_time,  \* self.last_batch_time
    now,              \* the clock time.time() reads
    b_ret,            \* what the last add_request call returned (or raised)
    admit_time,       \* history: admit_time[i] is the time item i was admitted
    handed,           \* history: the batches handed to the backend, in order
    b_failures,       \* history: number of batches on which the backend raised
    \* ---- AutoScaler (scaling_examples.py:224-269); self.target_cpu is never read
    min_instances,        \* self.min_instances
    max_instances,        \* self.max_instances
    scale_up_threshold,   \* self.scale_up_threshold, in percent
    scale_down_threshold, \* self.scale_down_threshold, in percent
    current_instances,    \* self.current_instances
    s_ret,                \* what the last AutoScaler call returned
    s_metrics,            \* history: the metrics of the last should_scale call
    s_calls,              \* history: number of should_scale calls
    s_log,                \* history of the example run: one record per should_scale call
    \* ---- LoadBalancer (scaling_examples.py:88-118)
    instances,        \* len(self.instances); instance i is self.instances[i]
    current_index,    \* self.current_index
    request_counts,   \* self.request_counts, request_counts[i + 1] for index i
    lb_ret,           \* what the last LoadBalancer call returned (or raised)
    returned,         \* history: returned[i + 1] is how often instance i was returned
    \* ---- calls that interleave: one frame of local variables per thread
    p_frames,         \* the frame of each thread's CachingLayer.predict call
    overlap,          \* history: a step was taken while another thread was inside predict
    s_frames,         \* the frame of each thread's AutoScaler.should_scale call
    s_delta,          \* history: the sum of the values should_scale returned to the threads
    \* ---- the instance the run constructed
    built                 \* its class, and how its __init__ ended

cacheVars == <<cache, cache_size, hits, misses, c_ret, calls, failures, backend_calls>>
hashVars  == <<feat_a, feat_b, key_a, key_b>>
batchVars == <<batch_queue, batch_size, max_wait_time, last_batch_time, now, b_ret,
               admit_time, handed, b_failures>>
scaleVars == <<min_instances, max_instances, scale_up_threshold, scale_down_threshold,
               current_instances, s_ret, s_metrics, s_calls, s_log>>
balanceVars == <<instances, current_index, request_counts, lb_ret, returned>>
threadVars  == <<p_frames, overlap, s_frames, s_delta>>
vars      == <<cacheVars, hashVars, batchVars, scaleVars, balanceVars, threadVars, built>>

\* What the actions of one component leave alone.
notCache == <<hashVars, batchVars, scaleVars, balanceVars, threadVars, built>>
notHash  == <<cacheVars, batchVars, scaleVars, balanceVars, threadVars, built>>
notBatch == <<cacheVars, hashVars, scaleVars, balanceVars, threadVars, built>>
notScale == <<cacheVars, hashVars, batchVars, balanceVars, threadVars, built>>
notBalance == <<cacheVars, hashVars, batchVars, scaleVars, threadVars, built>>

None == "None"

----------------------------------------------------------------------------
(* Bounds of the model.                                                    *)

MaxLookups         == 5   \* predict calls per run
MaxShortLookups    == 4   \* predict calls per run of the short cache runs
MaxScenarioLookups == 6   \* predict calls per run of the capacity-2 scenario
MaxCacheSize       == 2   \* cache_size is drawn from 1..MaxCacheSize
MaxBackendFailures == 1   \* backend calls that raise, per run and component
MaxBatchSize       == 3   \* batch_size is drawn from 1..MaxBatchSize
MaxWait            == 2   \* max_wait_time is drawn from 0..MaxWait
MaxTime            == 4   \* the clock runs from 0 to MaxTime
MaxAdmits          == 4   \* add_request calls per run
MaxInstances       == 3   \* min_instances and max_instances are drawn from 1..MaxInstances
MaxBalancerInstances == 3 \* LoadBalancer is built over 0..MaxBalancerInstances instances
MaxBalancerCalls   == 4   \* LoadBalancer calls per run
MaxThreadCalls     == 2   \* calls each thread makes in the interleaved runs
MaxScaleCalls      == 5   \* should_scale calls per run

FeatureKeys  == {1, 2}    \* keys a feature mapping may hold
HashValues   == {0, 1}    \* values, for the mappings _hash_features is checked on
CacheValues  == {0}       \* values, for the mappings predict is called with

----------------------------------------------------------------------------
(* Feature mappings.  A Python dict keeps insertion order, so a mapping is *)
(* the sequence of its (key, value) items in insertion order, with         *)
(* pairwise distinct keys.                                                 *)

Range(s) == {s[i] : i \in DOMAIN s}

IsMapping(f) == \A i, j \in DOMAIN f : i # j => f[i][1] # f[j][1]

Mappings(keys, vals) ==
    UNION {{f \in [1..n -> keys \X vals] : IsMapping(f)} : n \in 0..Cardinality(keys)}

\* Tuple order of Python: by first component, then by second.
TupleLess(p, q) == p[1] < q[1] \/ (p[1] = q[1] /\ p[2] < q[2])

\* Insert item p into the sorted sequence s, after the items not greater than it.
RECURSIVE SortedInsert(_, _)
SortedInsert(p, s) ==
    IF s = <<>> THEN <<p>>
    ELSE IF TupleLess(p, Head(s)) THEN <<p>> \o s
    ELSE <<Head(s)>> \o SortedInsert(p, Tail(s))

\* sorted with the sort left out: the items stay in insertion order.
sorted_unsorted(items) == items

\* sorted(features.items())
RECURSIVE sorted(_)
sorted(items) ==
    IF items = <<>> THEN <<>>
    ELSE SortedInsert(items[Len(items)], sorted(SubSeq(items, 1, Len(items) - 1)))

Digit == <<"0", "1", "2", "3", "4", "5", "6", "7", "8", "9">>

\* str(n) for the small non-negative integers of the model.
RECURSIVE IntStr(_)
IntStr(n) == IF n < 10 THEN <<Digit[n + 1]>> ELSE IntStr(n \div 10) \o <<Digit[(n % 10) + 1]>>

\* str() of a list of 2-tuples, as its sequence of characters:
\* "[(1, 0), (2, 0)]"
RECURSIVE ItemsStr(_)
ItemsStr(items) ==
    IF items = <<>> THEN <<>>
    ELSE <<"(">> \o IntStr(items[1][1]) \o <<",", " ">> \o IntStr(items[1][2]) \o <<")">>
         \o (IF Len(items) > 1 THEN <<",", " ">> ELSE <<>>)
         \o ItemsStr(Tail(items))

\* str() of the list without its brackets.
str_unbracketed(items) == ItemsStr(items)

str(items) == <<"[">> \o ItemsStr(items) \o <<"]">>

CharCode(c) ==
    CASE c = "[" -> 91 [] c = "]" -> 93 [] c = "(" -> 40 [] c = ")" -> 41
      [] c = "," -> 44 [] c = " " -> 32
      [] OTHER -> 48 + (CHOOSE d \in 0..9 : Digit[d + 1] = c)

DigestModulus == 1000003

\* hashlib.md5(s.encode()).hexdigest(): a deterministic digest of the
\* characters of s.  The digest is a fold over the characters; MD5 collisions
\* are not modelled (the fold is injective on the strings of the model).
RECURSIVE md5(_)
md5(s) ==
    IF s = <<>> THEN 7
    ELSE (md5(SubSeq(s, 1, Len(s) - 1)) * 131 + CharCode(s[Len(s)])) % DigestModulus

\* CachingLayer._hash_features
_hash_features(features) == md5(str(sorted(features)))

----------------------------------------------------------------------------
(* _hash_features on two mappings.                                         *)

HashInputs == Mappings(FeatureKeys, HashValues)

HashInit ==
    /\ feat_a \in HashInputs
    /\ feat_b \in HashInputs
    /\ key_a = <<>>
    /\ key_b = <<>>

HashIdle ==
    /\ feat_a = <<>>
    /\ feat_b = <<>>
    /\ key_a = <<>>
    /\ key_b = <<>>

HashA ==
    /\ key_a = <<>>
    /\ key_a' = <<_hash_features(feat_a)>>
    /\ UNCHANGED <<feat_a, feat_b, key_b, notHash>>

HashB ==
    /\ key_b = <<>>
    /\ key_b' = <<_hash_features(feat_b)>>
    /\ UNCHANGED <<feat_a, feat_b, key_a, notHash>>

----------------------------------------------------------------------------
(* CachingLayer.                                                           *)

\* The backend: self.model.predict / predict_proba on the features.  The
\* result depends on the key/value pairs only.
RECURSIVE ItemSum(_)
ItemSum(items) == IF items = <<>> THEN 0 ELSE items[1][1] + items[1][2] + ItemSum(Tail(items))

ModelResult(features) ==
    [prediction |-> ItemSum(features) % 2, probability |-> ItemSum(features)]

CacheKeys(c) == [i \in DOMAIN c |-> c[i].key]

\* cache_key in self.cache
InCache(c, k) == \E i \in DOMAIN c : c[i].key = k

\* self.cache[cache_key]
CacheGet(c, k) == c[CHOOSE i \in DOMAIN c : c[i].key = k].result

\* The capacity test with > for >=: the cache grows to cache_size + 1.
cache_full_off_by_one(c, size) == Len(c) > size

\* len(self.cache) >= self.cache_size
cache_full(c, size) == Len(c) >= size

\* Eviction of the newest entry instead of the oldest.
oldest_key_newest(c) == c[Len(c)].key

\* next(iter(self.cache)): the first key in insertion order
oldest_key(c) == c[1].key

\* del self.cache[k]
CacheDel(c, k) == SelectSeq(c, LAMBDA e : e.key # k)

\* self.cache[k] = r: a new key goes to the end, an existing key keeps its place
CacheSet(c, k, r) ==
    IF InCache(c, k)
    THEN [i \in DOMAIN c |-> IF c[i].key = k THEN [key |-> k, result |-> r] ELSE c[i]]
    ELSE Append(c, [key |-> k, result |-> r])

\* An LRU cache: a hit moves the entry to the end of the eviction order.
cache_after_hit_lru(c, k) == Append(CacheDel(c, k), [key |-> k, result |-> CacheGet(c, k)])

\* The hit branch of predict does not touch self.cache.
cache_after_hit(c, k) == c

\* The miss branch of predict, after the backend returned r.
cache_after_miss(c, size, k, r) ==
    CacheSet(IF cache_full(c, size) THEN CacheDel(c, oldest_key(c)) ELSE c, k, r)

\* The entry stored before the backend has answered: a lookup whose backend
\* call raises still evicts and inserts.
cache_after_lookup_eager(c, size, k, r, hit, computed) ==
    IF hit THEN cache_after_hit(c, k) ELSE cache_after_miss(c, size, k, r)

\* self.cache after predict; computed: the miss branch got as far as line
\* 164 (the model calls and the eviction did not raise).
cache_after_lookup(c, size, k, r, hit, computed) ==
    IF hit THEN cache_after_hit(c, k)
    ELSE IF computed THEN cache_after_miss(c, size, k, r)
    ELSE c

\* The backend called on every lookup, hit or miss.
backend_calls_after_always(hit, n) == n + 1

\* The model is called in the miss branch only (lines 149-151).
backend_calls_after(hit, n) == IF hit THEN n ELSE n + 1

\* The miss counted on every lookup, before the cache is consulted.
counters_after_miss_always(hit, h, m) == IF hit THEN <<h + 1, m + 1>> ELSE <<h, m + 1>>

\* self.hits += 1 on a hit, self.misses += 1 otherwise: <<hits, misses>>
counters_after(hit, h, m) == IF hit THEN <<h + 1, m>> ELSE <<h, m + 1>>

\* CachingLayer.__init__(model, cache_size), cache_size drawn from sizes: the
\* argument is stored as it is.
CacheInitWith(sizes) ==
    /\ cache = <<>>
    /\ cache_size \in sizes
    /\ hits = 0
    /\ misses = 0
    /\ c_ret = [op |-> "__init__"]
    /\ calls = <<>>
    /\ failures = 0
    /\ backend_calls = 0

CacheInit ==
    /\ cache = <<>>
    /\ cache_size \in 1..MaxCacheSize
    /\ hits = 0
    /\ misses = 0
    /\ c_ret = [op |-> "__init__"]
    /\ calls = <<>>
    /\ failures = 0
    /\ backend_calls = 0

CacheIdle ==
    /\ cache = <<>>
    /\ cache_size = 1
    /\ hits = 0
    /\ misses = 0
    /\ c_ret = [op |-> "__init__"]
    /\ calls = <<>>
    /\ failures = 0
    /\ backend_calls = 0

CacheInputs == Mappings(FeatureKeys, CacheValues)

\* self._hash_features(features) of each mapping predict is called with,
\* computed once: the pairs <<features, fingerprint>>
CacheKeyTable == {<<features, _hash_features(features)>> : features \in CacheInputs}

CacheKeyOf(features) == (CHOOSE p \in CacheKeyTable : p[1] = features)[2]

\* CachingLayer.predict(features); backend_ok: the model calls do not raise.
\* A serialized call: the whole method is one step.
Predict(features, backend_ok) ==
    LET cache_key == CacheKeyOf(features)
        hit       == InCache(cache, cache_key)
        counters  == counters_after(hit, hits, misses)
        result    == ModelResult(features)
        \* next(iter(self.cache)) on an empty dict raises StopIteration
        no_oldest == cache_full(cache, cache_size) /\ cache = <<>>
    IN  /\ backend_ok \/ (~hit /\ failures < MaxBackendFailures)
        /\ hits' = counters[1]
        /\ misses' = counters[2]
        /\ cache' = cache_after_lookup(cache, cache_size, cache_key, result, hit,
                                       backend_ok /\ ~no_oldest)
        /\ backend_calls' = backend_calls_after(hit, backend_calls)
        /\ c_ret' = IF hit
                    THEN [op |-> "predict", outcome |-> "hit", value |-> CacheGet(cache, cache_key)]
                    ELSE IF ~backend_ok
                    THEN [op |-> "predict", outcome |-> "raise", value |-> None]
                    ELSE IF no_oldest
                    THEN [op |-> "predict", outcome |-> "raise", value |-> "StopIteration"]
                    ELSE [op |-> "predict", outcome |-> "miss", value |-> result]
        /\ calls' = Append(calls, [key |-> cache_key,
                                   outcome |-> IF hit THEN "hit"
                                               ELSE IF backend_ok /\ ~no_oldest THEN "miss"
                                               ELSE "raise"])
        /\ failures' = IF hit \/ backend_ok THEN failures ELSE failures + 1
        /\ UNCHANGED <<cache_size, notCache>>

RECURSIVE GCD(_, _)
GCD(a, b) == IF b = 0 THEN a ELSE GCD(b, a % b)

\* Python's n / d: a ZeroDivisionError when d = 0, else the quotient (kept
\* exact, as a fraction in lowest terms).
TrueDiv(n, d) ==
    IF d = 0 THEN [error |-> "ZeroDivisionError", num |-> 0, den |-> 1]
    ELSE [error |-> None, num |-> n \div GCD(n, d), den |-> d \div GCD(n, d)]

\* The integer literal 0 of "else 0".
Zero == [error |-> None, num |-> 0, den |-> 1]

\* hit_rate computed without the guard on total.
hit_rate_unguarded(h, m) == TrueDiv(h, h + m)

\* self.hits / total if total > 0 else 0
hit_rate(h, m) == LET total == h + m IN IF total > 0 THEN TrueDiv(h, total) ELSE Zero

\* CachingLayer.get_cache_stats()
GetCacheStats ==
    LET rate == hit_rate(hits, misses)
    IN  /\ c_ret' = IF rate.error # None
                    THEN [op |-> "get_cache_stats", outcome |-> "raise", value |-> rate.error]
                    ELSE [op |-> "get_cache_stats", outcome |-> "return",
                          value |-> [cache_size |-> Len(cache), hits |-> hits,
                                     misses |-> misses, hit_rate |-> rate]]
        /\ UNCHANGED <<cache, cache_size, hits, misses, calls, failures, backend_calls,
                       notCache>>

----------------------------------------------------------------------------
(* BatchProcessor.                                                         *)

Min(a, b) == IF a <= b THEN a ELSE b
Max(a, b) == IF a >= b THEN a ELSE b

\* Python's q[:n]
SliceTo(q, n) ==
    IF n >= 0 THEN SubSeq(q, 1, Min(n, Len(q))) ELSE SubSeq(q, 1, Max(Len(q) + n, 0))

\* Python's q[n:]
SliceFrom(q, n) ==
    IF n >= 0 THEN SubSeq(q, Min(n, Len(q)) + 1, Len(q))
    ELSE SubSeq(q, Max(Len(q) + n, 0) + 1, Len(q))

\* The timeout test with > for >=.
should_process_strict(n, t, last, size, wait) == n >= size \/ (t - last) > wait

\* The size test with > for >=: a full batch waits for one more item.
should_process_late(n, t, last, size, wait) == n > size \/ (t - last) >= wait

\* should_process of add_request: the queue is full, or max_wait_time has
\* passed since last_batch_time.  n: len(self.batch_queue); t: time.time()
should_process(n, t, last, size, wait) == n >= size \/ (t - last) >= wait

\* A batch that leaves out the first pending item.
take_batch_skipping_first(q, size) == Tail(SliceTo(q, size))

\* batch = self.batch_queue[:self.batch_size]
take_batch(q, size) == SliceTo(q, size)

\* The batch left in the queue after it was taken.
rest_of_queue_kept(q, size) == q

\* self.batch_queue = self.batch_queue[self.batch_size:]
rest_of_queue(q, size) == SliceFrom(q, size)

\* What _process_batch returns: (predictions, probabilities), one per item.
ProcessResult(batch) ==
    [predictions |-> [i \in DOMAIN batch |-> batch[i] % 2],
     probabilities |-> [i \in DOMAIN batch |-> batch[i]]]

\* A value a call returned: <<>> for None, <<v>> for the value v.
Nothing == <<>>
Some(v) == <<v>>

\* add_request returning what _process_batch returned.
add_request_return_processed(processed) == processed

\* add_request has no return statement: it returns None, and drops what
\* _process_batch returned.
add_request_return(processed) == Nothing

\* BatchProcessor.__init__(model, batch_size, max_wait_time), batch_size
\* drawn from sizes and max_wait_time from waits: stored as they are.
BatchInitWith(sizes, waits) ==
    /\ batch_queue = <<>>
    /\ batch_size \in sizes
    /\ max_wait_time \in waits
    /\ last_batch_time = 0
    /\ now = 0
    /\ b_ret = [op |-> "__init__", outcome |-> "return", value |-> Nothing]
    /\ admit_time = <<>>
    /\ handed = <<>>
    /\ b_failures = 0

BatchInit ==
    /\ batch_queue = <<>>
    /\ batch_size \in (1..MaxBatchSize) \cup {100}
    /\ max_wait_time \in (0..MaxWait) \cup {MaxTime + 1}
    /\ last_batch_time = 0
    /\ now = 0
    /\ b_ret = [op |-> "__init__", outcome |-> "return", value |-> Nothing]
    /\ admit_time = <<>>
    /\ handed = <<>>
    /\ b_failures = 0

BatchIdle ==
    /\ batch_queue = <<>>
    /\ batch_size = 1
    /\ max_wait_time = 0
    /\ last_batch_time = 0
    /\ now = 0
    /\ b_ret = [op |-> "__init__", outcome |-> "return", value |-> Nothing]
    /\ admit_time = <<>>
    /\ handed = <<>>
    /\ b_failures = 0

\* A background timer: the passage of time flushes a pending batch that has
\* waited max_wait_time.
TickWithTimer ==
    /\ now < MaxTime
    /\ now' = now + 1
    /\ IF batch_queue # <<>> /\ (now + 1 - last_batch_time) >= max_wait_time
       THEN /\ batch_queue' = rest_of_queue(batch_queue, batch_size)
            /\ handed' = Append(handed, [batch |-> take_batch(batch_queue, batch_size),
                                         ok |-> TRUE])
            /\ last_batch_time' = now + 1
       ELSE UNCHANGED <<batch_queue, handed, last_batch_time>>
    /\ UNCHANGED <<batch_size, max_wait_time, b_ret, admit_time, b_failures, notBatch>>

\* Time passes between two calls: the class starts no timer and no thread,
\* so nothing else happens.
Tick ==
    /\ now < MaxTime
    /\ now' = now + 1
    /\ UNCHANGED <<batch_queue, batch_size, max_wait_time, last_batch_time, b_ret,
                   admit_time, handed, b_failures, notBatch>>

\* BatchProcessor.add_request(features), with _process_batch when it is called.
\* The item admitted is the next one (items are numbered in arrival order);
\* backend_ok: the model calls of _process_batch do not raise; elapsed: the
\* time the model calls take.  A serialized call: the whole method is one step.
AddRequest(backend_ok, elapsed) ==
    LET item    == Len(admit_time) + 1
        queue   == Append(batch_queue, item)
        process == should_process(Len(queue), now, last_batch_time, batch_size, max_wait_time)
                   /\ queue # <<>>
        batch   == take_batch(queue, batch_size)
    IN  /\ Len(admit_time) < MaxAdmits
        /\ now + elapsed <= MaxTime
        /\ process \/ (backend_ok /\ elapsed = 0)
        /\ backend_ok \/ b_failures < MaxBackendFailures
        /\ admit_time' = Append(admit_time, now)
        /\ now' = now + elapsed
        /\ IF process
           THEN /\ batch_queue' = rest_of_queue(queue, batch_size)
                /\ handed' = Append(handed, [batch |-> batch, ok |-> backend_ok])
                /\ IF backend_ok
                   THEN /\ last_batch_time' = now + elapsed
                        /\ b_ret' = [op |-> "add_request", outcome |-> "return",
                                     value |-> add_request_return(Some(ProcessResult(batch)))]
                        /\ UNCHANGED b_failures
                   ELSE /\ b_ret' = [op |-> "add_request", outcome |-> "raise", value |-> Nothing]
                        /\ b_failures' = b_failures + 1
                        /\ UNCHANGED last_batch_time
           ELSE /\ batch_queue' = queue
                /\ b_ret' = [op |-> "add_request", outcome |-> "return",
                             value |-> add_request_return(Nothing)]
                /\ UNCHANGED <<handed, last_batch_time, b_failures>>
        /\ UNCHANGED <<batch_size, max_wait_time, notBatch>>

----------------------------------------------------------------------------
(* AutoScaler.  cpu_usage and the two cpu thresholds are in percent        *)
(* (0.8 is 80); latencies are in ms and request rates in requests/s.       *)

DefaultScaleUpThreshold   == 80
DefaultScaleDownThreshold == 50
ScaleUpLatencyMs          == 1000
ScaleUpRequestRate        == 100
ScaleDownLatencyMs        == 100
ScaleDownRequestRate      == 10

\* The cpu thresholds a run is constructed with: the defaults, and a pair
\* with scale_up_threshold below scale_down_threshold.
ThresholdPairs == {<<DefaultScaleUpThreshold, DefaultScaleDownThreshold>>, <<40, 60>>}

CpuValues     == {30, 50, 80, 90}
LatencyValues == {50, 100, 1000, 1200}
RateValues    == {5, 10, 100, 150}

\* The metrics dicts should_scale is called with: every full snapshot over
\* the values above, the empty dict and a dict with cpu_usage only.
ScaleInputs ==
    [cpu_usage : CpuValues, request_rate : RateValues, avg_latency_ms : LatencyValues]
        \cup {<<>>, [cpu_usage |-> 90]}

\* The two snapshots of the example run (lines 355-358), and one between them.
ExampleUp      == [cpu_usage |-> 90, request_rate |-> 150, avg_latency_ms |-> 1200]
ExampleDown    == [cpu_usage |-> 30, request_rate |-> 5, avg_latency_ms |-> 50]
ExampleNeutral == [cpu_usage |-> 50, request_rate |-> 10, avg_latency_ms |-> 100]
ExampleInputs  == {ExampleUp, ExampleDown, ExampleNeutral}

\* metrics.get(k, 0)
MetricGet(metrics, k) == IF k \in DOMAIN metrics THEN metrics[k] ELSE 0

\* The scale-up test with >= for > on the cpu threshold.
scale_up_condition_inclusive(cpu_usage, avg_latency, request_rate, threshold) ==
    cpu_usage >= threshold \/ avg_latency > ScaleUpLatencyMs \/ request_rate > ScaleUpRequestRate

\* The condition of the if (lines 244-246).
scale_up_condition(cpu_usage, avg_latency, request_rate, threshold) ==
    cpu_usage > threshold \/ avg_latency > ScaleUpLatencyMs \/ request_rate > ScaleUpRequestRate

\* The condition of the elif (lines 257-259).
scale_down_condition(cpu_usage, avg_latency, request_rate, threshold) ==
    cpu_usage < threshold /\ avg_latency < ScaleDownLatencyMs /\ request_rate < ScaleDownRequestRate

\* A second if for the elif: a scale-up that is clamped at max_instances
\* falls through to the scale-down test.
should_scale_second_if(current, lo, hi, up, down) ==
    IF up /\ current < hi THEN <<Min(current + 1, hi), 1>>
    ELSE IF down /\ current > lo THEN <<Max(current - 1, lo), -1>>
    ELSE <<current, 0>>

\* Scaling up straight to max_instances.
should_scale_to_max(current, lo, hi, up, down) ==
    IF up THEN (IF current < hi THEN <<hi, 1>> ELSE <<current, 0>>)
    ELSE IF down THEN (IF current > lo THEN <<Max(current - 1, lo), -1>> ELSE <<current, 0>>)
    ELSE <<current, 0>>

\* return 1 without the test current < max_instances.
should_scale_unguarded(current, lo, hi, up, down) ==
    IF up THEN <<Min(current + 1, hi), 1>>
    ELSE IF down THEN <<Max(current - 1, lo), -1>>
    ELSE <<current, 0>>

\* The body of should_scale after the conditions (lines 244-269):
\* <<the new self.current_instances, the value returned>>
should_scale_outcome(current, lo, hi, up, down) ==
    IF up THEN (IF current < hi THEN <<Min(current + 1, hi), 1>> ELSE <<current, 0>>)
    ELSE IF down THEN (IF current > lo THEN <<Max(current - 1, lo), -1>> ELSE <<current, 0>>)
    ELSE <<current, 0>>

\* AutoScaler.__init__(min_instances, max_instances, ..., scale_up_threshold,
\* scale_down_threshold): the arguments are stored as they are.
ScaleInitWith(los, his, thresholds) ==
    /\ min_instances \in los
    /\ max_instances \in his
    /\ \E t \in thresholds : scale_up_threshold = t[1] /\ scale_down_threshold = t[2]
    /\ current_instances = min_instances
    /\ s_ret = [op |-> "__init__", value |-> 0]
    /\ s_metrics = <<>>
    /\ s_calls = 0
    /\ s_log = <<>>

ScaleInit == ScaleInitWith(1..MaxInstances, 1..MaxInstances, ThresholdPairs)

ScaleIdle == ScaleInitWith({1}, {1}, {<<DefaultScaleUpThreshold, DefaultScaleDownThreshold>>})

\* AutoScaler.should_scale(metrics).  A serialized call: one step.  s_log is
\* left to the specification, which keeps it in the example run only.
ShouldScale(metrics) ==
    LET cpu_usage    == MetricGet(metrics, "cpu_usage")
        request_rate == MetricGet(metrics, "request_rate")
        avg_latency  == MetricGet(metrics, "avg_latency_ms")
        outcome == should_scale_outcome(
                       current_instances, min_instances, max_instances,
                       scale_up_condition(cpu_usage, avg_latency, request_rate, scale_up_threshold),
                       scale_down_condition(cpu_usage, avg_latency, request_rate,
                                            scale_down_threshold))
    IN  /\ s_calls < MaxScaleCalls
        /\ current_instances' = outcome[1]
        /\ s_ret' = [op |-> "should_scale", value |-> outcome[2]]
        /\ s_metrics' = metrics
        /\ s_calls' = s_calls + 1
        /\ UNCHANGED <<min_instances, max_instances, scale_up_threshold, scale_down_threshold,
                       notScale>>

----------------------------------------------------------------------------
(* LoadBalancer.  Instance i is the model at index i of self.instances.    *)

Strategies == {"round_robin", "least_connections", "random"}

\* list.index(min(list)): the first 0-based index of the smallest count
FirstMinIndex(counts) ==
    (CHOOSE i \in DOMAIN counts :
        /\ \A j \in DOMAIN counts : counts[i] <= counts[j]
        /\ \A j \in DOMAIN counts : j < i => counts[j] > counts[i]) - 1

\* The counter of the instance returned incremented, not the counter at the
\* advanced index.
round_robin_counted_returned(n, index) == index

\* The index whose counter round_robin increments (lines 100-101): the one
\* current_index was advanced to.
round_robin_counted(n, index) == (index + 1) % n

\* get_instance(strategy) on n instances:
\* [raise, index returned, new current_index, new request_counts]
get_instance_outcome(strategy, n, index, counts) ==
    IF strategy = "round_robin"
    THEN IF n = 0
         THEN [raise |-> "IndexError", instance |-> 0, index |-> index, counts |-> counts]
         ELSE [raise |-> None, instance |-> index, index |-> (index + 1) % n,
               counts |-> [counts EXCEPT ![round_robin_counted(n, index) + 1] = @ + 1]]
    ELSE IF strategy = "least_connections"
    THEN IF n = 0
         THEN [raise |-> "ValueError", instance |-> 0, index |-> index, counts |-> counts]
         ELSE [raise |-> None, instance |-> FirstMinIndex(counts), index |-> index,
               counts |-> [counts EXCEPT ![FirstMinIndex(counts) + 1] = @ + 1]]
    ELSE [raise |-> "ValueError", instance |-> 0, index |-> index, counts |-> counts]

\* LoadBalancer.__init__(model_instances) with len(model_instances) in sizes
BalanceInitWith(sizes) ==
    /\ instances \in sizes
    /\ current_index = 0
    /\ request_counts = [i \in 1..instances |-> 0]
    /\ lb_ret = [op |-> "__init__", strategy |-> None, outcome |-> "return", instance |-> 0]
    /\ returned = [i \in 1..instances |-> 0]

BalanceInit == BalanceInitWith(0..MaxBalancerInstances)

BalanceIdle == BalanceInitWith({0})

RECURSIVE SeqSum(_)
SeqSum(q) == IF q = <<>> THEN 0 ELSE Head(q) + SeqSum(Tail(q))

\* The state change of get_instance(strategy); op: the method that was called.
Balance(op, strategy, ok) ==
    LET out == get_instance_outcome(strategy, instances, current_index, request_counts)
    IN  /\ current_index' = out.index
        /\ request_counts' = out.counts
        /\ returned' = IF out.raise = None
                       THEN [returned EXCEPT ![out.instance + 1] = @ + 1]
                       ELSE returned
        /\ lb_ret' = [op |-> op, strategy |-> strategy,
                      outcome |-> IF out.raise # None THEN out.raise
                                  ELSE IF ok THEN "return" ELSE "raise",
                      instance |-> out.instance]
        /\ UNCHANGED <<instances, notBalance>>

\* LoadBalancer.get_instance(strategy)
GetInstance(strategy) == Balance("get_instance", strategy, TRUE)

\* LoadBalancer.predict(features, strategy): get_instance, then the
\* instance's predict; backend_ok: it does not raise.
BalancerPredict(strategy, backend_ok) == Balance("predict", strategy, backend_ok)

----------------------------------------------------------------------------
(* Calls that interleave.  Two threads call one method of one shared       *)
(* instance with no lock; a step is one read or one write of a field of    *)
(* the instance, and the threads' steps interleave in any order.           *)

Threads == {1, 2}

\* The mappings the threads call predict with: the empty one and the
\* one-key ones, three distinct fingerprints.
ThreadInputs == {features \in CacheInputs : Len(features) <= 1}

\* ---- CachingLayer.predict, statement by statement

PredictIdle == [pc |-> "idle", features |-> <<>>, tmp |-> 0, oldest |-> 0,
                ret |-> "none", done |-> 0]

\* Thread t moves to frame f; overlap records that another thread is inside
\* predict at this step.
PredictStep(t, f) ==
    /\ p_frames' = [p_frames EXCEPT ![t] = f]
    /\ overlap' = (overlap \/ \E u \in Threads \ {t} : p_frames[u].pc # "idle")
    /\ UNCHANGED <<cache_size, c_ret, calls, hashVars, batchVars, scaleVars, balanceVars,
                   s_frames, s_delta, built>>

\* The frame of thread t after its call ended with ret.
PredictEnd(t, ret) ==
    [PredictIdle EXCEPT !.ret = ret, !.done = p_frames[t].done + 1]

\* predict(features) is called: cache_key is computed (line 139)
PredictBegin(t, features) ==
    /\ p_frames[t].pc = "idle"
    /\ p_frames[t].done < MaxThreadCalls
    /\ PredictStep(t, [p_frames[t] EXCEPT !.pc = "lookup", !.features = features,
                                          !.ret = "none"])
    /\ UNCHANGED <<cache, hits, misses, failures, backend_calls>>

\* if cache_key in self.cache (line 142)
PredictLookup(t) ==
    /\ p_frames[t].pc = "lookup"
    /\ PredictStep(t, [p_frames[t] EXCEPT
           !.pc = IF InCache(cache, CacheKeyOf(p_frames[t].features))
                  THEN "hit_read" ELSE "miss_read"])
    /\ UNCHANGED <<cache, hits, misses, failures, backend_calls>>

\* self.hits += 1 (line 143): the read
PredictHitRead(t) ==
    /\ p_frames[t].pc = "hit_read"
    /\ PredictStep(t, [p_frames[t] EXCEPT !.pc = "hit_write", !.tmp = hits])
    /\ UNCHANGED <<cache, hits, misses, failures, backend_calls>>

\* self.hits += 1 (line 143): the write
PredictHitWrite(t) ==
    /\ p_frames[t].pc = "hit_write"
    /\ hits' = p_frames[t].tmp + 1
    /\ PredictStep(t, [p_frames[t] EXCEPT !.pc = "hit_return", !.tmp = 0])
    /\ UNCHANGED <<cache, misses, failures, backend_calls>>

\* return self.cache[cache_key] (line 145): a KeyError when the entry has
\* been evicted since line 142
PredictHitReturn(t) ==
    /\ p_frames[t].pc = "hit_return"
    /\ PredictStep(t, PredictEnd(t, IF InCache(cache, CacheKeyOf(p_frames[t].features))
                                    THEN "result" ELSE "KeyError at line 145"))
    /\ UNCHANGED <<cache, hits, misses, failures, backend_calls>>

\* self.misses += 1 (line 148): the read
PredictMissRead(t) ==
    /\ p_frames[t].pc = "miss_read"
    /\ PredictStep(t, [p_frames[t] EXCEPT !.pc = "miss_write", !.tmp = misses])
    /\ UNCHANGED <<cache, hits, misses, failures, backend_calls>>

\* self.misses += 1 (line 148): the write
PredictMissWrite(t) ==
    /\ p_frames[t].pc = "miss_write"
    /\ misses' = p_frames[t].tmp + 1
    /\ PredictStep(t, [p_frames[t] EXCEPT !.pc = "compute", !.tmp = 0])
    /\ UNCHANGED <<cache, hits, failures, backend_calls>>

\* The model calls (lines 149-156); backend_ok: they do not raise.
PredictCompute(t, backend_ok) ==
    /\ p_frames[t].pc = "compute"
    /\ backend_ok \/ failures < MaxBackendFailures
    /\ backend_calls' = backend_calls + 1
    /\ failures' = IF backend_ok THEN failures ELSE failures + 1
    /\ PredictStep(t, IF backend_ok THEN [p_frames[t] EXCEPT !.pc = "capacity"]
                      ELSE PredictEnd(t, "BackendError"))
    /\ UNCHANGED <<cache, hits, misses>>

\* if len(self.cache) >= self.cache_size (line 158)
PredictCapacity(t) ==
    /\ p_frames[t].pc = "capacity"
    /\ PredictStep(t, [p_frames[t] EXCEPT
           !.pc = IF cache_full(cache, cache_size) THEN "pick" ELSE "store"])
    /\ UNCHANGED <<cache, hits, misses, failures, backend_calls>>

\* oldest_key = next(iter(self.cache)) (line 160): StopIteration when the
\* dict is empty
PredictPick(t) ==
    /\ p_frames[t].pc = "pick"
    /\ PredictStep(t, IF cache = <<>> THEN PredictEnd(t, "StopIteration")
                      ELSE [p_frames[t] EXCEPT !.pc = "evict", !.oldest = oldest_key(cache)])
    /\ UNCHANGED <<cache, hits, misses, failures, backend_calls>>

\* del self.cache[oldest_key] (line 161): a KeyError when the key is gone
PredictEvict(t) ==
    /\ p_frames[t].pc = "evict"
    /\ IF InCache(cache, p_frames[t].oldest)
       THEN /\ cache' = CacheDel(cache, p_frames[t].oldest)
            /\ PredictStep(t, [p_frames[t] EXCEPT !.pc = "store", !.oldest = 0])
       ELSE /\ cache' = cache
            /\ PredictStep(t, PredictEnd(t, "KeyError at line 161"))
    /\ UNCHANGED <<hits, misses, failures, backend_calls>>

\* self.cache[cache_key] = result; return result (lines 164-165)
PredictStore(t) ==
    /\ p_frames[t].pc = "store"
    /\ cache' = CacheSet(cache, CacheKeyOf(p_frames[t].features),
                         ModelResult(p_frames[t].features))
    /\ PredictStep(t, PredictEnd(t, "result"))
    /\ UNCHANGED <<hits, misses, failures, backend_calls>>

\* ---- AutoScaler.should_scale, with each read and each write of
\* self.current_instances a step

ScaleFrameIdle == [pc |-> "idle", new_instances |-> 0, ret |-> 0, done |-> 0]

\* The count written without the clamp.
scale_up_value_unclamped(read, hi) == read + 1

\* min(self.current_instances + 1, self.max_instances) (lines 248-251)
scale_up_value(read, hi) == Min(read + 1, hi)

\* max(self.current_instances - 1, self.min_instances) (lines 261-264)
scale_down_value(read, lo) == Max(read - 1, lo)

ScaleStep(t, f) ==
    /\ s_frames' = [s_frames EXCEPT ![t] = f]
    /\ UNCHANGED <<min_instances, max_instances, scale_up_threshold, scale_down_threshold,
                   s_ret, s_metrics, s_calls, s_log,
                   cacheVars, hashVars, batchVars, balanceVars, p_frames, overlap, built>>

\* Thread t's call returns ret.
ScaleReturn(t, ret) ==
    /\ ScaleStep(t, [ScaleFrameIdle EXCEPT !.ret = ret, !.done = s_frames[t].done + 1])
    /\ s_delta' = s_delta + ret

\* should_scale(metrics) is called: the metrics are read and the two
\* conditions evaluated (lines 239-246, 257-259); with neither, return 0.
ScaleBegin(t, metrics) ==
    LET cpu_usage    == MetricGet(metrics, "cpu_usage")
        request_rate == MetricGet(metrics, "request_rate")
        avg_latency  == MetricGet(metrics, "avg_latency_ms")
        up   == scale_up_condition(cpu_usage, avg_latency, request_rate, scale_up_threshold)
        down == scale_down_condition(cpu_usage, avg_latency, request_rate,
                                     scale_down_threshold)
    IN  /\ s_frames[t].pc = "idle"
        /\ s_frames[t].done < MaxThreadCalls
        /\ IF up \/ down
           THEN /\ ScaleStep(t, [s_frames[t] EXCEPT
                        !.pc = IF up THEN "up_guard" ELSE "down_guard", !.ret = 0])
                /\ UNCHANGED s_delta
           ELSE ScaleReturn(t, 0)
        /\ UNCHANGED current_instances

\* if self.current_instances < self.max_instances (line 247)
ScaleUpGuard(t) ==
    /\ s_frames[t].pc = "up_guard"
    /\ IF current_instances < max_instances
       THEN ScaleStep(t, [s_frames[t] EXCEPT !.pc = "up_read"]) /\ UNCHANGED s_delta
       ELSE ScaleReturn(t, 0)
    /\ UNCHANGED current_instances

\* new_instances = min(self.current_instances + 1, ...) (lines 248-251):
\* the read of self.current_instances
ScaleUpRead(t) ==
    /\ s_frames[t].pc = "up_read"
    /\ ScaleStep(t, [s_frames[t] EXCEPT
           !.pc = "up_write",
           !.new_instances = scale_up_value(current_instances, max_instances)])
    /\ UNCHANGED <<current_instances, s_delta>>

\* self.current_instances = new_instances; return 1 (lines 253-254)
ScaleUpWrite(t) ==
    /\ s_frames[t].pc = "up_write"
    /\ current_instances' = s_frames[t].new_instances
    /\ ScaleReturn(t, 1)

\* if self.current_instances > self.min_instances (line 260)
ScaleDownGuard(t) ==
    /\ s_frames[t].pc = "down_guard"
    /\ IF current_instances > min_instances
       THEN ScaleStep(t, [s_frames[t] EXCEPT !.pc = "down_read"]) /\ UNCHANGED s_delta
       ELSE ScaleReturn(t, 0)
    /\ UNCHANGED current_instances

\* new_instances = max(self.current_instances - 1, ...) (lines 261-264):
\* the read of self.current_instances
ScaleDownRead(t) ==
    /\ s_frames[t].pc = "down_read"
    /\ ScaleStep(t, [s_frames[t] EXCEPT
           !.pc = "down_write",
           !.new_instances = scale_down_value(current_instances, min_instances)])
    /\ UNCHANGED <<current_instances, s_delta>>

\* self.current_instances = new_instances; return -1 (lines 266-267)
ScaleDownWrite(t) ==
    /\ s_frames[t].pc = "down_write"
    /\ current_instances' = s_frames[t].new_instances
    /\ ScaleReturn(t, -1)

\* No call is in progress in any thread.
ThreadsIdle ==
    /\ p_frames = [t \in Threads |-> PredictIdle]
    /\ overlap = FALSE
    /\ s_frames = [t \in Threads |-> ScaleFrameIdle]
    /\ s_delta = 0

----------------------------------------------------------------------------
(* Specifications.                                                         *)

Built(class) == [class |-> class, outcome |-> "return"]

\* No LoadBalancer call and no interleaved call is in the run.
OthersIdle == BalanceIdle /\ ThreadsIdle

HashNext == HashA \/ HashB

InitHash == HashInit /\ CacheIdle /\ BatchIdle /\ ScaleIdle /\ OthersIdle /\ built = Built("CachingLayer")

SpecHash == InitHash /\ [][HashNext]_vars

CacheNext ==
    \/ \E features \in CacheInputs, backend_ok \in BOOLEAN :
          Len(calls) < MaxLookups /\ Predict(features, backend_ok)
    \/ GetCacheStats

InitCache == CacheInit /\ HashIdle /\ BatchIdle /\ ScaleIdle /\ OthersIdle /\ built = Built("CachingLayer")

SpecCache == InitCache /\ [][CacheNext]_vars

\* The same cache in shorter runs.
CacheShortNext ==
    \/ \E features \in CacheInputs, backend_ok \in BOOLEAN :
          Len(calls) < MaxShortLookups /\ Predict(features, backend_ok)
    \/ GetCacheStats

InitCacheShort ==
    CacheInit /\ HashIdle /\ BatchIdle /\ ScaleIdle /\ OthersIdle /\ built = Built("CachingLayer")

SpecCacheShort == InitCacheShort /\ [][CacheShortNext]_vars

\* The scenario of a cache of capacity 2 (CachingLayer(model, cache_size=2)).
InitCacheTwo ==
    /\ CacheInit /\ cache_size = 2
    /\ HashIdle /\ BatchIdle /\ ScaleIdle /\ OthersIdle /\ built = Built("CachingLayer")

CacheTwoNext ==
    \/ \E features \in CacheInputs, backend_ok \in BOOLEAN :
          Len(calls) < MaxScenarioLookups /\ Predict(features, backend_ok)
    \/ GetCacheStats

SpecCacheTwo == InitCacheTwo /\ [][CacheTwoNext]_vars

BatchNext ==
    \/ Tick
    \/ \E backend_ok \in BOOLEAN, elapsed \in 0..1 : AddRequest(backend_ok, elapsed)

InitBatch == BatchInit /\ CacheIdle /\ HashIdle /\ ScaleIdle /\ OthersIdle /\ built = Built("BatchProcessor")

SpecBatch == InitBatch /\ [][BatchNext]_vars

\* The scenario BatchProcessor(model, batch_size=3, max_wait_time=large):
\* max_wait_time is longer than the whole run.
InitBatchThree ==
    /\ BatchInit /\ batch_size = 3 /\ max_wait_time = MaxTime + 1
    /\ CacheIdle /\ HashIdle /\ ScaleIdle /\ OthersIdle /\ built = Built("BatchProcessor")

SpecBatchThree == InitBatchThree /\ [][BatchNext]_vars

\* The scenario BatchProcessor(model, batch_size=100, max_wait_time=0).
InitBatchImmediate ==
    /\ BatchInit /\ batch_size = 100 /\ max_wait_time = 0
    /\ CacheIdle /\ HashIdle /\ ScaleIdle /\ OthersIdle /\ built = Built("BatchProcessor")

SpecBatchImmediate == InitBatchImmediate /\ [][BatchNext]_vars

\* AutoScaler with any min_instances and max_instances (the constructor
\* checks nothing) and any metrics.
ScaleNext == \E metrics \in ScaleInputs : ShouldScale(metrics) /\ UNCHANGED s_log

InitScale == ScaleInit /\ CacheIdle /\ HashIdle /\ BatchIdle /\ OthersIdle /\ built = Built("AutoScaler")

SpecScale == InitScale /\ [][ScaleNext]_vars

\* The example run: AutoScaler(min_instances=1, max_instances=5), fed the
\* example snapshots in any order; s_log records each call.
InitScaleExample ==
    /\ ScaleInitWith({1}, {5}, {<<DefaultScaleUpThreshold, DefaultScaleDownThreshold>>})
    /\ CacheIdle /\ HashIdle /\ BatchIdle /\ OthersIdle /\ built = Built("AutoScaler")

ScaleExampleNext ==
    \E metrics \in ExampleInputs :
        /\ ShouldScale(metrics)
        /\ s_log' = Append(s_log, [metrics |-> metrics, ret |-> s_ret'.value,
                                   count |-> current_instances'])

SpecScaleExample == InitScaleExample /\ [][ScaleExampleNext]_vars

\* One instance of one class, constructed with any arguments, then used.
AnySizes == {-1, 0, 1, 2}

InitConstruct ==
    \/ /\ CacheInitWith(AnySizes)
       /\ HashIdle /\ BatchIdle /\ ScaleIdle /\ OthersIdle /\ built = Built("CachingLayer")
    \/ /\ BatchInitWith(AnySizes, {0, MaxTime + 1})
       /\ CacheIdle /\ HashIdle /\ ScaleIdle /\ OthersIdle /\ built = Built("BatchProcessor")
    \/ /\ ScaleInit
       /\ CacheIdle /\ HashIdle /\ BatchIdle /\ OthersIdle /\ built = Built("AutoScaler")

ConstructNext ==
    \/ built.class = "CachingLayer" /\ CacheNext
    \/ built.class = "BatchProcessor" /\ BatchNext
    \/ built.class = "AutoScaler" /\ ScaleNext

SpecConstruct == InitConstruct /\ [][ConstructNext]_vars

\* One LoadBalancer over any number of instances, any strategy per call.
BalanceNext ==
    \E strategy \in Strategies :
        /\ SeqSum(request_counts) < MaxBalancerCalls
        /\ \/ GetInstance(strategy)
           \/ \E backend_ok \in BOOLEAN : BalancerPredict(strategy, backend_ok)

InitBalance ==
    /\ BalanceInit /\ ThreadsIdle
    /\ CacheIdle /\ HashIdle /\ BatchIdle /\ ScaleIdle /\ built = Built("LoadBalancer")

SpecBalance == InitBalance /\ [][BalanceNext]_vars

\* Two threads calling predict on one CachingLayer with no lock.
PredictThreadsNext ==
    \E t \in Threads :
        \/ \E features \in ThreadInputs : PredictBegin(t, features)
        \/ PredictLookup(t)
        \/ PredictHitRead(t)
        \/ PredictHitWrite(t)
        \/ PredictHitReturn(t)
        \/ PredictMissRead(t)
        \/ PredictMissWrite(t)
        \/ \E backend_ok \in BOOLEAN : PredictCompute(t, backend_ok)
        \/ PredictCapacity(t)
        \/ PredictPick(t)
        \/ PredictEvict(t)
        \/ PredictStore(t)

InitPredictThreads ==
    /\ CacheInit /\ ThreadsIdle
    /\ HashIdle /\ BatchIdle /\ ScaleIdle /\ BalanceIdle /\ built = Built("CachingLayer")

SpecPredictThreads == InitPredictThreads /\ [][PredictThreadsNext]_vars

\* Two threads calling should_scale on one AutoScaler with no lock.
ScaleThreadsNext ==
    \E t \in Threads :
        \/ \E metrics \in ExampleInputs : ScaleBegin(t, metrics)
        \/ ScaleUpGuard(t)
        \/ ScaleUpRead(t)
        \/ ScaleUpWrite(t)
        \/ ScaleDownGuard(t)
        \/ ScaleDownRead(t)
        \/ ScaleDownWrite(t)

InitScaleThreads ==
    /\ ScaleInit /\ ThreadsIdle
    /\ CacheIdle /\ HashIdle /\ BatchIdle /\ BalanceIdle /\ built = Built("AutoScaler")

SpecScaleThreads == InitScaleThreads /\ [][ScaleThreadsNext]_vars

----------------------------------------------------------------------------
(* Properties of CachingLayer.                                             *)

Last(s) == s[Len(s)]

\* The fingerprints inserted so far, in insertion order: every lookup that
\* missed and whose result was computed inserted its fingerprint.
RECURSIVE InsertedOf(_)
InsertedOf(log) ==
    IF log = <<>> THEN <<>>
    ELSE IF Last(log).outcome = "miss"
         THEN Append(InsertedOf(SubSeq(log, 1, Len(log) - 1)), Last(log).key)
         ELSE InsertedOf(SubSeq(log, 1, Len(log) - 1))

Inserted == InsertedOf(calls)

\* The n most recently inserted distinct keys of seq, oldest first.
RECURSIVE RecentDistinct(_, _, _)
RecentDistinct(seq, n, acc) ==
    IF n = 0 \/ seq = <<>> THEN acc
    ELSE IF Last(seq) \in Range(acc)
         THEN RecentDistinct(SubSeq(seq, 1, Len(seq) - 1), n, acc)
         ELSE RecentDistinct(SubSeq(seq, 1, Len(seq) - 1), n - 1, <<Last(seq)>> \o acc)

IsLookupStep == Len(calls') = Len(calls) + 1

\* C1: after any sequence of serialized predict calls (cache_size >= 1) the
\* cache holds at most cache_size entries.
C1_SizeWithinCapacity == Len(cache) <= cache_size

\* C1 witness: a full cache that has already evicted an entry.
C1_Witness == Len(cache) = cache_size /\ Len(Inserted) > cache_size

C5_CountersCountLookups ==
    /\ [](hits + misses = Len(calls))
    /\ [][IF IsLookupStep
          THEN IF InCache(cache, Last(calls').key)
               THEN hits' = hits + 1 /\ misses' = misses
               ELSE hits' = hits /\ misses' = misses + 1
          ELSE hits' = hits /\ misses' = misses]_vars

\* C5 witness: hits and misses have both been counted, one of the misses
\* being a lookup whose backend call raised.
C5_Witness == hits >= 1 /\ misses >= 2 /\ failures >= 1 /\ hits + misses = Len(calls)

\* C6: get_cache_stats reports hit_rate = hits / (hits + misses) once a lookup
\* has occurred and exactly 0, without raising, before the first lookup.
C6_HitRate ==
    c_ret.op = "get_cache_stats" =>
        /\ c_ret.outcome = "return"
        /\ c_ret.value.hits = hits /\ c_ret.value.misses = misses
        /\ hits + misses > 0 =>
              /\ c_ret.value.hit_rate.den > 0
              /\ c_ret.value.hit_rate.num * (hits + misses) = hits * c_ret.value.hit_rate.den
        /\ hits + misses = 0 => c_ret.value.hit_rate = Zero

\* C6 witness: statistics reported after one hit in three lookups.
C6_Witness ==
    /\ c_ret.op = "get_cache_stats"
    /\ c_ret.outcome = "return"
    /\ hits = 1 /\ misses = 2
    /\ c_ret.value.hit_rate = [error |-> None, num |-> 1, den |-> 3]

\* C7: two mappings with the same key/value pairs have the same fingerprint,
\* whatever the order their keys were inserted in.
C7_FingerprintOrderIndependent ==
    (key_a # <<>> /\ key_b # <<>> /\ Range(feat_a) = Range(feat_b)) => key_a = key_b

\* C7 witness: the fingerprints of one two-key mapping in both insertion orders.
C7_Witness ==
    /\ key_a # <<>> /\ key_b # <<>>
    /\ Len(feat_a) = 2
    /\ feat_a # feat_b
    /\ Range(feat_a) = Range(feat_b)
    /\ key_a = key_b

\* The capacity-2 scenario: the first three lookups inserted three distinct
\* fingerprints a, b, c, in that order.
ThreeInserted ==
    /\ cache_size = 2
    /\ Len(calls) >= 3
    /\ \A i \in 1..3 : calls[i].outcome = "miss"
    /\ Cardinality({calls[i].key : i \in 1..3}) = 3

\* The lookups after the three insertions are of a, b, c, in that order.
LooksUpInOrder(n) ==
    /\ Len(calls) >= 3 + n
    /\ \A i \in 1..n : calls[3 + i].key = calls[i].key

\* C3, as claimed: with capacity 2, after a, b, c were inserted, the lookups
\* of a, b, c through predict, in that order, are a miss, a hit and a hit.
C3_AsClaimed ==
    /\ (ThreeInserted /\ LooksUpInOrder(1)) => calls[4].outcome # "hit"
    /\ (ThreeInserted /\ LooksUpInOrder(2)) => calls[5].outcome = "hit"
    /\ (ThreeInserted /\ LooksUpInOrder(3)) => calls[6].outcome = "hit"

\* C3, amended: with capacity 2, after a, b, c were inserted, b and c are
\* live and a is not (the next lookup is a miss for a, a hit for b or c); but
\* predict inserts on a miss, so the lookup of a evicts b, the lookup of b
\* that follows is a miss that evicts c, and the lookup of c is a miss too.
C3_LookupsEvict ==
    /\ (ThreeInserted /\ LooksUpInOrder(1)) => calls[4].outcome # "hit"
    /\ (ThreeInserted /\ Len(calls) >= 4 /\ calls[4].key \in {calls[2].key, calls[3].key})
          => calls[4].outcome = "hit"
    /\ (ThreeInserted /\ LooksUpInOrder(2) /\ calls[4].outcome = "miss")
          => calls[5].outcome # "hit"
    /\ (ThreeInserted /\ LooksUpInOrder(3) /\ calls[4].outcome = "miss" /\ calls[5].outcome = "miss")
          => calls[6].outcome # "hit"

\* C3 witness: a, b, c inserted, then looked up in that order: three misses.
C3_Witness ==
    /\ ThreeInserted
    /\ LooksUpInOrder(3)
    /\ Len(calls) = 6
    /\ \A i \in 4..6 : calls[i].outcome = "miss"
    /\ hits = 0 /\ misses = 6

----------------------------------------------------------------------------
(* Properties of BatchProcessor.                                           *)

IsAdmissionStep == Len(admit_time') = Len(admit_time) + 1

\* The admission of this step called _process_batch.
AdmissionFlushes == Len(handed') = Len(handed) + 1

\* The admission time of the first item of the pending batch the item being
\* admitted joins: its own admission time when the queue is empty.
FirstPendingAt == IF batch_queue = <<>> THEN now ELSE admit_time[Head(batch_queue)]

\* C8, as claimed: an admission flushes if and only if, after the append, the
\* pending count is >= batch_size or the time since the admission of the
\* first item of the pending batch is >= max_wait_time; so an item admitted
\* into an empty batcher with batch_size > 1 and max_wait_time > 0 is not
\* flushed by its own admission.
C8_AsClaimed ==
    [][IsAdmissionStep =>
          /\ AdmissionFlushes <=> \/ Len(batch_queue) + 1 >= batch_size
                                  \/ now - FirstPendingAt >= max_wait_time
          /\ (batch_queue = <<>> /\ batch_size > 1 /\ max_wait_time > 0) => ~AdmissionFlushes]_vars

\* C8, amended: an admission flushes if and only if, after the append, the
\* pending count is >= batch_size or the time since the last completed flush
\* (since construction before the first one) is >= max_wait_time; so an item
\* admitted into an empty batcher with batch_size > 1 and max_wait_time > 0
\* is flushed by its own admission exactly when that much time has passed.
C8_FlushSinceLastBatch ==
    [][IsAdmissionStep =>
          /\ AdmissionFlushes <=> \/ Len(batch_queue) + 1 >= batch_size
                                  \/ now - last_batch_time >= max_wait_time
          /\ (batch_queue = <<>> /\ batch_size > 1 /\ max_wait_time > 0)
                => (AdmissionFlushes <=> now - last_batch_time >= max_wait_time)]_vars

\* C8 witness: with batch_size > 1 and max_wait_time > 0, an item admitted
\* into an empty queue was flushed alone by its own admission, after an
\* earlier flush.
C8_Witness ==
    /\ batch_size > 1
    /\ max_wait_time > 0
    /\ Len(handed) >= 2
    /\ Len(Last(handed).batch) = 1
    /\ Last(handed).batch[1] = Len(admit_time)
    /\ b_ret.op = "add_request"

\* C9: a flush hands the backend the first batch_size pending items (all of
\* them if fewer), in arrival order, and removes exactly those from the
\* queue, the others keeping their order.
C9_FlushTakesFirstItems ==
    [][(IsAdmissionStep /\ AdmissionFlushes) =>
          LET queue == Append(batch_queue, Len(admit_time) + 1)
              n     == Min(batch_size, Len(queue))
          IN  /\ Last(handed').batch = SubSeq(queue, 1, n)
              /\ \A i, j \in 1..n : i < j => Last(handed').batch[i] < Last(handed').batch[j]
              /\ batch_queue' = SubSeq(queue, n + 1, Len(queue))]_vars

\* C9 witness: a full batch of three items was handed over in arrival order.
C9_Witness ==
    /\ handed # <<>>
    /\ Len(Last(handed).batch) = 3
    /\ Last(handed).batch = <<Len(admit_time) - 2, Len(admit_time) - 1, Len(admit_time)>>
    /\ batch_queue = <<>>

\* The last call was an admission that flushed and returned normally.
FlushedAndReturned ==
    /\ b_ret.op = "add_request"
    /\ b_ret.outcome = "return"
    /\ handed # <<>>
    /\ Last(handed).ok
    /\ Last(Last(handed).batch) = Len(admit_time)

\* C10, as claimed: an admission that flushes returns the flushed batch, and
\* an admission that does not flush returns nothing.
C10_AsClaimed ==
    /\ FlushedAndReturned => b_ret.value = Some(Last(handed).batch)
    /\ (b_ret.op = "add_request" /\ b_ret.outcome = "return" /\ ~FlushedAndReturned)
          => b_ret.value = Nothing

\* C10, amended: an admission returns nothing, whether or not it flushes; the
\* flushed batch goes to the backend only, and what _process_batch returns is
\* dropped.
C10_ReturnsNothing ==
    (b_ret.op = "add_request" /\ b_ret.outcome = "return") => b_ret.value = Nothing

\* C10 witness: an admission flushed a batch and returned nothing.
C10_Witness == FlushedAndReturned /\ b_ret.value = Nothing

\* C11: with batch_size = 3 and max_wait_time longer than the run, the first
\* two admissions flush nothing, the third flushes the three items in
\* admission order, and that is the only flush: a fourth admission flushes
\* nothing and leaves the queue holding the fourth item alone.
C11_ThreeThenFresh ==
    /\ Len(admit_time) < 3 => (handed = <<>> /\ batch_queue = [i \in 1..Len(admit_time) |-> i])
    /\ Len(admit_time) >= 3 =>
          (Len(handed) = 1 /\ handed[1].batch = <<1, 2, 3>>
             /\ batch_queue = [i \in 1..(Len(admit_time) - 3) |-> i + 3])
    /\ Len(admit_time) = 4 => batch_queue = <<4>>

\* C11 witness: four items admitted, one flush of the first three, the
\* fourth pending.
C11_Witness ==
    /\ batch_size = 3
    /\ max_wait_time > MaxTime
    /\ Len(admit_time) = 4
    /\ Len(handed) = 1
    /\ handed[1] = [batch |-> <<1, 2, 3>>, ok |-> TRUE]
    /\ batch_queue = <<4>>

\* C12: with batch_size = 100 and max_wait_time = 0 every admission flushes
\* at once a batch holding exactly the item just admitted, and the queue is
\* empty after every admission.
C12_EveryAdmissionFlushes ==
    /\ batch_queue = <<>>
    /\ Len(handed) = Len(admit_time)
    /\ \A i \in DOMAIN handed : handed[i].batch = <<i>>

\* C12 witness: three admissions at different times, three batches of one.
C12_Witness ==
    /\ batch_size = 100
    /\ max_wait_time = 0
    /\ Len(admit_time) = 3
    /\ admit_time[1] < admit_time[3]
    /\ Len(handed) = 3
    /\ batch_queue = <<>>

\* The pending batch has waited max_wait_time or more since last_batch_time.
StalePending == batch_queue # <<>> /\ now - last_batch_time >= max_wait_time

\* C13: only an admission flushes: the passage of time changes neither the
\* pending queue nor the batches handed over, so a partly filled batch that
\* has outlived max_wait_time stays pending until the next admission.
C13_OnlyAdmissionFlushes ==
    [][~IsAdmissionStep =>
          (batch_queue' = batch_queue /\ handed' = handed /\ last_batch_time' = last_batch_time)]_vars

\* C13 witness: at the end of the clock's range a partly filled batch is
\* still pending, two or more ticks after it outlived max_wait_time.
C13_Witness ==
    /\ StalePending
    /\ Len(batch_queue) < batch_size
    /\ max_wait_time > 0
    /\ now - last_batch_time >= max_wait_time + 2
    /\ now - admit_time[Head(batch_queue)] >= max_wait_time + 2

----------------------------------------------------------------------------
(* Properties of AutoScaler.                                               *)

\* This step is a should_scale call.
IsScaleStep == s_calls' = s_calls + 1

InBounds == min_instances <= current_instances /\ current_instances <= max_instances

\* The scale-up and the scale-down rule, as the reference states them.
RuleUp(metrics) ==
    \/ MetricGet(metrics, "cpu_usage") > scale_up_threshold
    \/ MetricGet(metrics, "avg_latency_ms") > 1000
    \/ MetricGet(metrics, "request_rate") > 100

RuleDown(metrics) ==
    /\ MetricGet(metrics, "cpu_usage") < scale_down_threshold
    /\ MetricGet(metrics, "avg_latency_ms") < 100
    /\ MetricGet(metrics, "request_rate") < 10

\* C14, as claimed: in every reachable state of the autoscaler,
\* min_instances <= current_instances <= max_instances.  Refuted: the
\* constructor accepts min_instances > max_instances and starts at
\* min_instances.
C14_AsClaimed == InBounds

\* C14, for the autoscalers constructed with min_instances <= max_instances:
\* no sequence of should_scale calls leaves the bounds.
C14_WhenOrdered == min_instances <= max_instances => InBounds

\* C14 witness: an autoscaler constructed with min_instances above
\* max_instances has taken calls and is still above max_instances.
C14_Witness ==
    /\ min_instances > max_instances
    /\ s_calls >= 2
    /\ current_instances > max_instances

\* C15: each should_scale call changes current_instances by exactly +1, -1
\* or 0, and no other step changes it.
C15_StepsByOne ==
    [][/\ current_instances' - current_instances \in {-1, 0, 1}
       /\ ~IsScaleStep => current_instances' = current_instances]_vars

\* C15 witness: the count has gone up by one and come down by one again.
C15_Witness ==
    /\ s_calls >= 2
    /\ s_ret.value = -1
    /\ current_instances = min_instances
    /\ current_instances < max_instances

\* The count the three-rule reference decides on.
ReferenceCount(metrics) ==
    IF RuleUp(metrics) THEN Min(current_instances + 1, max_instances)
    ELSE IF RuleDown(metrics) THEN Max(current_instances - 1, min_instances)
    ELSE current_instances

\* C16: from every in-bounds state and for every metrics snapshot,
\* should_scale leaves the count the three-rule reference decides on: up by
\* one (clamped to max) if cpu_usage > scale_up_threshold or avg_latency_ms >
\* 1000 or request_rate > 100, otherwise down by one (clamped to min) if
\* cpu_usage < scale_down_threshold and avg_latency_ms < 100 and
\* request_rate < 10, otherwise unchanged; the comparisons are strict.
C16_AgreesWithReference ==
    [][(IsScaleStep /\ InBounds) =>
          current_instances' = ReferenceCount(s_metrics')]_vars

\* C16 witness: a snapshot with every value exactly at its scale-up
\* threshold left an autoscaler with room on both sides unchanged.
C16_Witness ==
    /\ s_calls >= 2
    /\ min_instances < current_instances
    /\ current_instances < max_instances
    /\ DOMAIN s_metrics = {"cpu_usage", "request_rate", "avg_latency_ms"}
    /\ MetricGet(s_metrics, "cpu_usage") = scale_up_threshold
    /\ MetricGet(s_metrics, "avg_latency_ms") = 1000
    /\ MetricGet(s_metrics, "request_rate") = 100
    /\ s_ret.value = 0

\* C17: for a snapshot that satisfies both the scale-up and the scale-down
\* rule, should_scale does not decrease current_instances and does not
\* return -1, also when current_instances is already max_instances.
C17_ScaleUpWins ==
    [][(IsScaleStep /\ RuleUp(s_metrics') /\ RuleDown(s_metrics')) =>
          (current_instances' >= current_instances /\ s_ret'.value # -1)]_vars

\* C17 witness: with scale_up_threshold below scale_down_threshold, a
\* snapshot satisfying both rules was evaluated at max_instances, above
\* min_instances, and the call returned 0.
C17_Witness ==
    /\ s_calls >= 1
    /\ scale_up_threshold < scale_down_threshold
    /\ RuleUp(s_metrics) /\ RuleDown(s_metrics)
    /\ current_instances = max_instances
    /\ min_instances < max_instances
    /\ s_ret.value = 0

\* The counts and the returned values of five scale-ups in a row from 1.
ExampleCounts  == <<2, 3, 4, 5, 5>>
ExampleReturns == <<1, 1, 1, 1, 0>>

\* The first n calls were all made with the scale-up snapshot.
FirstAllUp(n) == \A i \in 1..n : s_log[i].metrics = ExampleUp

\* C18: AutoScaler(min_instances=1, max_instances=5) starts at 1 instance,
\* and while every call so far was made with the scale-up snapshot the
\* counts are 2, 3, 4, 5, 5: the fifth call returns 0, clamped at 5.
C18_ExampleRun ==
    /\ s_calls = 0 => current_instances = 1
    /\ \A n \in 1..Min(Len(s_log), 5) :
          FirstAllUp(n) => /\ s_log[n].count = ExampleCounts[n]
                           /\ s_log[n].ret = ExampleReturns[n]

\* C18 witness: five scale-up snapshots in a row have been evaluated.
C18_Witness ==
    /\ Len(s_log) = 5
    /\ FirstAllUp(5)
    /\ current_instances = 5
    /\ s_ret.value = 0

----------------------------------------------------------------------------
(* Properties of construction.                                             *)

InvalidConfiguration ==
    \/ built.class = "CachingLayer" /\ cache_size <= 0
    \/ built.class = "BatchProcessor" /\ batch_size <= 0
    \/ built.class = "AutoScaler" /\ min_instances > max_instances

\* C19, as claimed: construction with a non-positive batch size, a
\* non-positive cache capacity or min_instances > max_instances raises, so
\* no instance holds such a configuration.  Refuted: the three constructors
\* store their arguments unchecked and return.
C19_AsClaimed == InvalidConfiguration => built.outcome = "raise"

\* C19 witness: an instance with such a configuration has been used: a
\* cache of capacity <= 0 took a lookup, a batcher of batch size <= 0 an
\* admission, or an autoscaler with min above max a should_scale call.
C19_Witness ==
    /\ InvalidConfiguration
    /\ built.outcome = "return"
    /\ calls # <<>> \/ admit_time # <<>> \/ s_calls > 0

----------------------------------------------------------------------------
(* Properties of BatchProcessor under backend failures.                    *)

\* The items of a batch whose scoring failed are neither pending nor in any
\* other batch handed to the backend.
FailedBatchesGone ==
    \A i \in 1..Len(handed) :
        ~handed[i].ok =>
            \A x \in Range(handed[i].batch) :
                /\ x \notin Range(batch_queue)
                /\ \A j \in 1..Len(handed) : j # i => x \notin Range(handed[j].batch)

\* The admission whose flush fails raises and returns no result.
FailureRaises ==
    (IsAdmissionStep /\ AdmissionFlushes /\ ~Last(handed').ok) =>
        /\ b_ret'.outcome = "raise"
        /\ b_ret'.value = Nothing
        /\ \A x \in Range(Last(handed').batch) : x \notin Range(batch_queue')

\* C20: when the backend fails on a flushed batch, the admission that
\* triggered the flush raises, the batch yields no result, and its items
\* are never put back into the pending queue nor handed to the backend
\* again.
C20_FailedBatchNotRetried == []FailedBatchesGone /\ [][FailureRaises]_vars

\* C20 witness: after a batch failed, later items were admitted, one batch
\* of them was scored and others are pending.
C20_Witness ==
    /\ \E i \in 1..Len(handed) :
          /\ ~handed[i].ok
          /\ handed[i].batch # <<>>
          /\ i < Len(handed)
    /\ Last(handed).ok
    /\ batch_queue # <<>>
    /\ b_ret.outcome = "return"

----------------------------------------------------------------------------
(* Properties of CachingLayer: population, fingerprints of empty mappings, *)
(* backend failures.                                                       *)

\* A lookup that hits leaves the cache and the backend alone and returns
\* the stored result; a lookup that changes the cache missed, called the
\* backend once and stored the result it returns under its fingerprint.
PopulatesAfterMiss ==
    IsLookupStep =>
        LET k   == Last(calls').key
            hit == InCache(cache, k)
        IN  /\ hit => /\ backend_calls' = backend_calls
                      /\ cache' = cache
                      /\ c_ret'.outcome = "hit"
                      /\ c_ret'.value = CacheGet(cache, k)
            /\ cache' # cache =>
                      /\ ~hit
                      /\ backend_calls' = backend_calls + 1
                      /\ c_ret'.outcome = "miss"
                      /\ Range(CacheKeys(cache')) \ Range(CacheKeys(cache)) = {k}
                      /\ CacheGet(cache', k) = c_ret'.value

\* C21: the cache is populated only after a miss: an entry is inserted only
\* by a lookup that missed, after the backend computed its result; a lookup
\* that hits makes no backend call and returns the stored result; no other
\* step changes the cache or calls the backend.
C21_PopulatedAfterMissOnly ==
    /\ [][PopulatesAfterMiss]_vars
    /\ [][~IsLookupStep => (cache' = cache /\ backend_calls' = backend_calls)]_vars

\* C21 witness: a hit was just served, after two or more backend calls of
\* which one raised.
C21_Witness ==
    /\ c_ret.op = "predict" /\ c_ret.outcome = "hit"
    /\ hits >= 1
    /\ backend_calls >= 2
    /\ failures = 1

\* str(sorted({}.items())) is "[]"
EmptyFingerprint == md5(<<"[", "]">>)

\* C22, as claimed: fingerprinting an empty feature mapping is rejected, so
\* no cache key is ever produced for it.
C22_AsClaimed ==
    /\ feat_a = <<>> => key_a = <<>>
    /\ feat_b = <<>> => key_b = <<>>

\* C22: fingerprinting an empty feature mapping does not fail: it yields the
\* digest of "[]", a cache key no non-empty mapping has.
C22_EmptyHasFingerprint ==
    /\ (feat_a = <<>> /\ key_a # <<>>) => key_a = <<EmptyFingerprint>>
    /\ (feat_b = <<>> /\ key_b # <<>>) => key_b = <<EmptyFingerprint>>
    /\ (feat_a = <<>> /\ feat_b # <<>> /\ key_a # <<>> /\ key_b # <<>>) => key_a # key_b

\* C22 witness: the empty mapping and a non-empty one both have their keys.
C22_Witness ==
    /\ feat_a = <<>> /\ key_a # <<>>
    /\ Len(feat_b) = 2 /\ key_b # <<>>

\* This step is a lookup that missed and whose result was computed.
IsComputedMiss == IsLookupStep /\ Last(calls').outcome = "miss"

\* C26: with cache_size >= 1 and no backend failure, the cache holds
\* min(cache_size, misses) entries: every miss inserts exactly one new entry
\* and evicts exactly one entry if and only if the cache was full.
C26_EntriesAreMinOfSizeAndMisses ==
    /\ [](failures = 0 => Len(cache) = Min(cache_size, misses))
    /\ [][IsComputedMiss =>
            /\ Range(CacheKeys(cache')) \ Range(CacheKeys(cache)) = {Last(calls').key}
            /\ Cardinality(Range(CacheKeys(cache)) \ Range(CacheKeys(cache')))
                  = IF Len(cache) >= cache_size THEN 1 ELSE 0]_vars

\* C26 witness: no backend failure, more misses than the capacity, hits in
\* between, the cache full.
C26_Witness ==
    /\ failures = 0
    /\ misses >= cache_size + 2
    /\ hits >= 1
    /\ Len(cache) = cache_size

\* C27: when the backend raises while computing the result of a miss, the
\* call raises, the cache is left as it was (nothing inserted, nothing
\* evicted), the miss is counted and hits is unchanged.
C27_FailedMissLeavesCache ==
    [][(IsLookupStep /\ failures' = failures + 1) =>
          /\ c_ret'.outcome = "raise"
          /\ cache' = cache
          /\ misses' = misses + 1
          /\ hits' = hits]_vars

\* C27 witness: the backend raised on a miss against a full cache of
\* capacity 2, which still holds its two entries.
C27_Witness ==
    /\ failures = 1
    /\ c_ret.op = "predict" /\ c_ret.outcome = "raise"
    /\ cache_size = 2 /\ Len(cache) = 2
    /\ misses = Len(Inserted) + 1
    /\ ~InCache(cache, Last(calls).key)

----------------------------------------------------------------------------
(* Properties of BatchProcessor with a backend that does not fail.         *)

\* The batches handed to the backend so far, one after the other.
RECURSIVE Flushed(_)
Flushed(h) == IF h = <<>> THEN <<>> ELSE Flushed(SubSeq(h, 1, Len(h) - 1)) \o Last(h).batch

\* C23: with batch_size >= 1 and a backend that does not fail, every flush
\* drains the pending queue completely: after every admission fewer than
\* batch_size items are pending, and no batch handed over holds more than
\* batch_size items.
C23_FlushDrainsQueue ==
    /\ [](b_failures = 0 =>
            /\ Len(batch_queue) < batch_size
            /\ \A i \in DOMAIN handed : Len(handed[i].batch) <= batch_size)
    /\ [][(IsAdmissionStep /\ AdmissionFlushes /\ b_failures' = 0) =>
            /\ batch_queue' = <<>>
            /\ Last(handed').batch = Append(batch_queue, Len(admit_time'))]_vars

\* C23 witness: a full batch and a batch flushed short, by the wait, have
\* been handed over, and an item is pending.
C23_Witness ==
    /\ b_failures = 0
    /\ batch_size >= 2
    /\ \E i \in DOMAIN handed : Len(handed[i].batch) = batch_size
    /\ \E i \in DOMAIN handed : Len(handed[i].batch) < batch_size
    /\ batch_queue # <<>>

\* C25: with a backend that does not fail, the batches flushed so far, one
\* after the other, followed by the pending queue, are the items admitted so
\* far, in admission order: none lost, duplicated or reordered.
C25_ItemsConserved ==
    b_failures = 0 => Flushed(handed) \o batch_queue = [i \in 1..Len(admit_time) |-> i]

\* C25 witness: four items admitted, two or more batches flushed, the last
\* item pending.
C25_Witness ==
    /\ b_failures = 0
    /\ Len(admit_time) >= 4
    /\ Len(handed) >= 2
    /\ batch_queue = <<Len(admit_time)>>

----------------------------------------------------------------------------
(* The value should_scale returns.                                         *)

\* C24: should_scale returns the change it applied to current_instances:
\* +1 only when the count rose by one, -1 only when it fell by one, 0 when
\* it is unchanged, also when a scaling condition holds at the bound.
C24_ReturnsAppliedChange ==
    [][IsScaleStep => s_ret'.value = current_instances' - current_instances]_vars

\* C24 witness: the scale-down rule held with the count already at
\* min_instances, below max_instances, and the call returned 0.
C24_Witness ==
    /\ s_calls >= 2
    /\ RuleDown(s_metrics) /\ ~RuleUp(s_metrics)
    /\ current_instances = min_instances
    /\ min_instances < max_instances
    /\ s_ret.value = 0

----------------------------------------------------------------------------
(* Properties of calls that interleave.                                    *)

\* A predict call ended in an error of the dict operations.
DictErrors == {"KeyError at line 145", "KeyError at line 161", "StopIteration"}

\* C28: predict is not atomic.  With two threads the cache can hold more
\* than cache_size entries and a deletion of the oldest key can fail, and
\* both happen only in runs where a call overlapped another call; the excess
\* is at most one entry, that of the second thread.
C28_OverflowOnlyByInterleaving ==
    /\ Len(cache) <= cache_size + 1
    /\ Len(cache) > cache_size => overlap
    /\ (\E t \in Threads : p_frames[t].ret \in DictErrors) => overlap

\* C28 witness: two calls for distinct uncached fingerprints both passed the
\* capacity test before either stored, so the cache holds more than
\* cache_size entries; later two calls picked the same oldest key and the
\* second del raised KeyError while the first call returned its result.
C28_Witness ==
    /\ Len(cache) > cache_size
    /\ \E t, u \in Threads :
          /\ p_frames[t].ret = "KeyError at line 161"
          /\ p_frames[u].ret = "result"
          /\ p_frames[t].pc = "idle" /\ p_frames[u].pc = "idle"
          /\ p_frames[t].done = 2 /\ p_frames[u].done = 2
    /\ failures = 0

\* C29: with the reads and writes of interleaved should_scale calls as
\* separate steps, current_instances never leaves
\* [min_instances, max_instances]: every value written is within the bounds
\* (what is lost is that the returned values add up to the net change).
C29_InterleavedStaysInBounds ==
    /\ [][InBounds => InBounds']_vars
    /\ [][current_instances' # current_instances => InBounds']_vars

\* C29 witness: both calls have returned, the count is within its bounds
\* and the values returned do not add up to the change of the count.
C29_Witness ==
    /\ \A t \in Threads : s_frames[t].pc = "idle" /\ s_frames[t].done >= 1
    /\ InBounds
    /\ min_instances < max_instances
    /\ s_delta # current_instances - min_instances

----------------------------------------------------------------------------
(* Properties of LoadBalancer.                                             *)

\* C30, as claimed: request_counts[i] is the number of times instance i was
\* returned, for both strategies.  Refuted for round_robin over two or more
\* instances: the counter incremented is that of the next instance.
C30_AsClaimed == \A i \in 1..instances : request_counts[i] = returned[i]

\* C30 witness: one round_robin call over two instances returned instance 0
\* and counted it for instance 1.
C30_Witness ==
    /\ instances = 2
    /\ lb_ret.op = "get_instance" /\ lb_ret.strategy = "round_robin"
    /\ lb_ret.instance = 0
    /\ returned = <<1, 0>>
    /\ request_counts = <<0, 1>>

====
